---- MODULE Spec2Model ----
(***************************************************************************)
(* Pricing-intelligence dashboard components:                              *)
(*   - getColorFromScale and the PricingHeatmap colour-scale range,        *)
(*     summary and tooltip,                                                *)
(*   - PromoCalibrationSlider (optimistic drag, debounced inference call,  *)
(*     abortable fetch, unmount cleanup),                                  *)
(*   - VendorMatrix (sorting, statistics, single-source cells, tooltip),   *)
(*   - SKUSearch (filter record, debounced query, immediate dispatch).     *)
(* Numbers are integers: prices are in cents, calibration scores in        *)
(* tenths.  A JavaScript value that may be undefined is a sequence of      *)
(* length 0 (undefined) or 1 (the value).                                  *)
(***************************************************************************)
EXTENDS Integers, Sequences, FiniteSets, TLC

VARIABLES
    call,            \* one invocation of getColorFromScale: arguments and result
    data,            \* PricingHeatmap prop: sequence of RegionPricingData
    config,          \* PricingHeatmap prop: minValue / maxValue overrides
    selectedMetric,  \* PricingHeatmap state
    range,           \* PricingHeatmap useMemo result {minValue, maxValue}
    heatEvent,       \* the last PricingHeatmap event (history)
    tooltip,         \* PricingHeatmap state: null or {region, x, y}
    \* PromoCalibrationSlider: props
    promoType,          \* stands for the props skuId, currentPrice, promoType
    externalLoading,    \* the isLoading prop
    \* PromoCalibrationSlider: React state
    sliderValue, aiRecommendedValue, confidenceInterval, projectedLift,
    calibrationScore, isLoading, latencyMs,
    abortControllerRef, \* 0 (null) or the index in requests of the controller's fetch
    \* PromoCalibrationSlider: environment
    mounted,            \* the component instance is mounted
    disabled,           \* the disabled attribute of the range input, as last committed
    timerId,            \* the debounce timer of debouncedInference is pending
    lastArgs,           \* the argument of the last debouncedInference call
    elapsed,            \* ms since the last drag (the debounce's time since last call)
    requests,           \* every fetch issued so far, in order
    \* PromoCalibrationSlider: history
    lastDrag,           \* the value of the last drag event
    dragCount,          \* number of drag events handled
    valueChange,        \* onValueChange: number of calls and last argument
    burst,              \* drags and requests of the current burst of drags
    atIssue,            \* the server-derived fields when the last request was issued
    teardown,           \* what the unmount found pending
    \* VendorMatrix
    matrixData,         \* the data prop: vendors, skus, matrix
    sortBy,             \* state: 'name' | 'coverage' | 'price'
    filterCategory,     \* state: '' or a category
    sortedVendors,      \* useMemo result
    vendorStats,        \* useMemo result: vendor_id -> {coverage, bestPrice}
    matrixEvent,        \* the last VendorMatrix event (history)
    cellTooltip,        \* VendorMatrix state tooltip: null or {cell, vendor, sku, x, y}
    \* The pointing device and the callback props
    pointer,            \* the element under the pointer; clientX / clientY of its last event
    callbacks,          \* the callback props invoked by the last event, in order
    \* SKUSearch
    filters,            \* state: the filter record
    onSearch,           \* the identity of the onSearch prop
    timers,             \* per debounce instance created so far: its pending timer
    searchMounted,      \* the component instance is mounted
    \* SKUSearch: history
    searchEvent,        \* the last SKUSearch event
    lastQuery,          \* the text of the last edit of the search input
    sinceQuery,         \* ms since that edit, up to DebounceWait
    queryBurst,         \* edits and debounced dispatches of the current burst of edits
    searchCount         \* user events handled so far

colorVars == <<call>>
heatVars  == <<data, config, selectedMetric, range, heatEvent, tooltip>>
propVars  == <<promoType, externalLoading>>
serverFields == <<confidenceInterval, aiRecommendedValue, projectedLift,
                  calibrationScore, latencyMs>>
timerVars == <<timerId, lastArgs>>
histVars  == <<lastDrag, dragCount, valueChange, burst, atIssue, teardown>>
matrixVars == <<matrixData, sortBy, filterCategory, sortedVendors, vendorStats,
                matrixEvent, cellTooltip>>
uiVars == <<pointer, callbacks>>
searchVars == <<filters, onSearch, timers, searchMounted, searchEvent, lastQuery,
                sinceQuery, queryBurst, searchCount>>
sliderVars == <<propVars, sliderValue, serverFields, isLoading, abortControllerRef,
                mounted, disabled, timerVars, elapsed, requests, histVars>>

Undefined == <<>>
Some(v)   == <<v>>

\* The initial props of PromoCalibrationSlider.
initialAiValue == 15
initialConfidenceInterval == <<10, 20>>

\* No PromoCalibrationSlider is being observed.
SliderOff ==
    /\ promoType = "percentage" /\ externalLoading = FALSE
    /\ sliderValue = initialAiValue /\ aiRecommendedValue = initialAiValue
    /\ confidenceInterval = initialConfidenceInterval
    /\ projectedLift = 0 /\ calibrationScore = 8 /\ isLoading = FALSE /\ latencyMs = 0
    /\ abortControllerRef = 0
    /\ mounted = FALSE /\ disabled = FALSE
    /\ timerId = FALSE /\ lastArgs = Undefined /\ elapsed = 0
    /\ requests = <<>>
    /\ lastDrag = Undefined /\ dragCount = 0
    /\ valueChange = [count |-> 0, last |-> Undefined]
    /\ burst = [drags |-> 0, requests |-> 0]
    /\ atIssue = Undefined
    /\ teardown = Undefined


\* No PricingHeatmap instance.
HeatOff ==
    /\ data = <<>>
    /\ config = [minValue |-> Undefined, maxValue |-> Undefined]
    /\ selectedMetric = "avg_price"
    /\ range = [minValue |-> 0, maxValue |-> 100]
    /\ heatEvent = "none"
    /\ tooltip = Undefined

\* No VendorMatrix instance.
MatrixOff ==
    /\ matrixData = [vendors |-> <<>>, skus |-> <<>>, matrix |-> <<>>]
    /\ sortBy = "coverage" /\ filterCategory = ""
    /\ sortedVendors = <<>> /\ vendorStats = <<>>
    /\ matrixEvent = "none"
    /\ cellTooltip = Undefined

\* The filter record with every field absent: {}.
EmptyFilters == [query |-> Undefined, category |-> Undefined, min_price |-> Undefined,
                 is_active |-> Undefined]

\* No SKUSearch instance.
SearchOff ==
    /\ filters = EmptyFilters /\ onSearch = 1 /\ timers = <<>>
    /\ searchMounted = FALSE
    /\ searchEvent = "none" /\ lastQuery = Undefined /\ sinceQuery = 0
    /\ queryBurst = [edits |-> 0, dispatches |-> 0]
    /\ searchCount = 0

\* The pointer is over none of the elements; no callback has been invoked.
UiOff ==
    /\ pointer = [over |-> Undefined, x |-> 0, y |-> 0]
    /\ callbacks = <<>>

(***************************************************************************)
(* getColorFromScale                                                       *)
(***************************************************************************)
DEFAULT_COLOR_SCALE == <<"#22c55e", "#84cc16", "#eab308", "#f97316", "#ef4444">>

\* Math.floor(a / b) for integers a, b with b # 0.
FloorDiv(a, b) == IF b > 0 THEN a \div b ELSE (0 - a) \div (0 - b)

Min2(a, b) == IF a <= b THEN a ELSE b

\* colorScale[i] of a JavaScript array: undefined outside 0 .. length-1.
ArrayAt(arr, i) == IF i \in 0 .. (Len(arr) - 1) THEN Some(arr[i + 1]) ELSE Undefined

\* The index computed from the distance to max instead of min.
ScaleIndex_Inverted(value, min, max, colorScale) ==
    Min2(FloorDiv((max - value) * Len(colorScale), max - min), Len(colorScale) - 1)

\* The index computed on the max # min path:
\*   Math.min(Math.floor((value - min) / (max - min) * length), length - 1)
ScaleIndex(value, min, max, colorScale) ==
    Min2(FloorDiv((value - min) * Len(colorScale), max - min), Len(colorScale) - 1)

\* The middle entry taken as floor((length - 1) / 2).
getColorFromScale_LowMiddle(value, min, max, colorScale) ==
    IF max = min
    THEN ArrayAt(colorScale, (Len(colorScale) - 1) \div 2)
    ELSE ArrayAt(colorScale, ScaleIndex(value, min, max, colorScale))

getColorFromScale(value, min, max, colorScale) ==
    IF max = min
    THEN ArrayAt(colorScale, Len(colorScale) \div 2)
    ELSE ArrayAt(colorScale, ScaleIndex(value, min, max, colorScale))

\* No call of getColorFromScale is being observed.
NoCall == [pc |-> "idle", value |-> 0, min |-> 0, max |-> 0,
           colorScale |-> DEFAULT_COLOR_SCALE, result |-> Undefined]

(***************************************************************************)
(* PricingHeatmap: colour-scale range                                      *)
(***************************************************************************)
Metrics == {"avg_price", "vendor_count", "price_index"}

\* The switch over selectedMetric inside data.map.
MetricValue(d, metric) ==
    CASE metric = "avg_price"    -> d.avg_price
      [] metric = "vendor_count" -> d.vendor_count
      [] metric = "price_index"  -> d.price_index
      [] OTHER                   -> d.avg_price

RECURSIVE MathMin(_)
\* Math.min(...values) for a non-empty array.
MathMin(values) ==
    IF Len(values) = 1 THEN values[1]
    ELSE LET m == MathMin(Tail(values))
         IN  IF values[1] < m THEN values[1] ELSE m

RECURSIVE MathMax(_)
\* Math.max(...values) for a non-empty array.
MathMax(values) ==
    IF Len(values) = 1 THEN values[1]
    ELSE LET m == MathMax(Tail(values))
         IN  IF values[1] > m THEN values[1] ELSE m

\* a || b on an optional number: 0 counts as missing.
LogicalOr(a, b) == IF a = Undefined \/ a = Some(0) THEN b ELSE a[1]

\* a ?? b on an optional number.
Nullish(a, b) == IF a = Undefined THEN b ELSE a[1]

\* The memo with the overrides applied to an empty collection as well.
ComputeRange_OverrideEmpty(d, metric, cfg) ==
    IF Len(d) = 0
    THEN [minValue |-> Nullish(cfg.minValue, 0), maxValue |-> Nullish(cfg.maxValue, 100)]
    ELSE LET values == [i \in 1 .. Len(d) |-> MetricValue(d[i], metric)]
         IN  [minValue |-> Nullish(cfg.minValue, MathMin(values)),
              maxValue |-> Nullish(cfg.maxValue, MathMax(values))]

\* The useMemo body computing { minValue, maxValue }.
ComputeRange(d, metric, cfg) ==
    IF Len(d) = 0 THEN [minValue |-> 0, maxValue |-> 100]
    ELSE LET values == [i \in 1 .. Len(d) |-> MetricValue(d[i], metric)]
         IN  [minValue |-> Nullish(cfg.minValue, MathMin(values)),
              maxValue |-> Nullish(cfg.maxValue, MathMax(values))]

MaxRegions == 2     \* longest data collection tried

RegionCodes == <<"CA", "TX", "NY", "FL">>
RegionStats ==
    { [avg_price |-> 190, vendor_count |-> 3, sku_count |-> 4, price_index |-> 1],
      [avg_price |-> 350, vendor_count |-> 0, sku_count |-> 0, price_index |-> 2],
      [avg_price |-> 350, vendor_count |-> 3, sku_count |-> 7, price_index |-> 1],
      [avg_price |-> 190, vendor_count |-> 0, sku_count |-> 4, price_index |-> 2] }
Region(i, st) == [region_code |-> RegionCodes[i], avg_price |-> st.avg_price,
                  vendor_count |-> st.vendor_count, sku_count |-> st.sku_count,
                  price_index |-> st.price_index]
Datasets == UNION { { [i \in 1 .. n |-> Region(i, f[i])] : f \in [1 .. n -> RegionStats] }
                    : n \in 0 .. MaxRegions }
Overrides == {Undefined, Some(0), Some(2), Some(200)}
Configs == [minValue : Overrides, maxValue : Overrides]

RECURSIVE Reduce(_, _, _)
\* data.reduce((sum, d) => sum + d[field], initial)
Reduce(d, field, initial) ==
    IF Len(d) = 0 THEN initial
    ELSE Reduce(Tail(d), field, initial + Head(d)[field])

\* Intl.NumberFormat currency with two fraction digits: the amount (in
\* cents) rounded to the nearest cent, written as <<"$", cents>>.
formatCurrency(num, den) == <<"$", (2 * num + den) \div (2 * den)>>

\* The four tiles of the summary row, as rendered from the current data.
SummaryStats(d) ==
    [regions      |-> Len(d),
     totalVendors |-> Reduce(d, "vendor_count", 0),
     totalSkus    |-> Reduce(d, "sku_count", 0),
     avgPrice     |-> IF Len(d) > 0
                      THEN formatCurrency(Reduce(d, "avg_price", 0), Len(d))
                      ELSE <<"$0.00">>]

\* useState(config.metric || 'avg_price'); the memo is computed on the first render.
HeatInit ==
    /\ data \in Datasets
    /\ config \in Configs
    /\ \E m \in {Undefined} \cup {Some(x) : x \in Metrics} :
          selectedMetric = IF m = Undefined THEN "avg_price" ELSE m[1]
    /\ range = ComputeRange(data, selectedMetric, config)
    /\ heatEvent = "mount"
    /\ tooltip = Undefined
    /\ call = NoCall
    /\ SliderOff
    /\ MatrixOff
    /\ UiOff
    /\ SearchOff

\* onChange of the metric <select>: setSelectedMetric, then the memo's
\* dependency changed and it is recomputed in the re-render.
SelectMetric(m) ==
    /\ heatEvent # "none"
    /\ m # selectedMetric
    /\ selectedMetric' = m
    /\ range' = ComputeRange(data, m, config)
    /\ heatEvent' = "metric"
    /\ callbacks' = <<>>
    /\ UNCHANGED <<data, config, call, sliderVars, searchVars, matrixVars, tooltip, pointer>>

\* The parent passes a new data collection.
SetData(d) ==
    /\ heatEvent # "none"
    /\ d # data
    /\ data' = d
    /\ range' = ComputeRange(d, selectedMetric, config)
    /\ heatEvent' = "data"
    /\ callbacks' = <<>>
    /\ UNCHANGED <<config, selectedMetric, call,
                   sliderVars, searchVars, matrixVars, tooltip, pointer>>

\* The parent passes new override bounds.
SetConfig(c) ==
    /\ heatEvent # "none"
    /\ c # config
    /\ config' = c
    /\ range' = ComputeRange(data, selectedMetric, c)
    /\ heatEvent' = "config"
    /\ callbacks' = <<>>
    /\ UNCHANGED <<data, selectedMetric, call,
                   sliderVars, searchVars, matrixVars, tooltip, pointer>>

\* regionDataMap.has(code): some entry of data has that region_code.
MapHas(d, code) == \E i \in 1 .. Len(d) : d[i].region_code = code

\* regionDataMap.get(code): map.set overwrites, so the last such entry.
MapGet(d, code) ==
    LET last == CHOOSE i \in 1 .. Len(d) :
                    /\ d[i].region_code = code
                    /\ \A j \in 1 .. Len(d) : d[j].region_code = code => j <= i
    IN  d[last]

\* clientX / clientY of the mouse events tried.
Coords == { <<120, 80>>, <<300, 210>> }

\* The <circle> of region code, one per key of US_STATE_COORDS.
Circle(code) == <<"circle", code>>
Markers == { RegionCodes[i] : i \in 1 .. Len(RegionCodes) }

\* One invocation of a callback prop.
Invoke(fn, arg) == [fn |-> fn, arg |-> arg]

\* handleRegionHover(code, event)
handleRegionHover(code, xy) ==
    IF MapHas(data, code)
    THEN /\ tooltip' = Some([region |-> MapGet(data, code), x |-> xy[1], y |-> xy[2]])
         /\ callbacks' = <<Invoke("onRegionHover", Some(MapGet(data, code)))>>
    ELSE /\ callbacks' = <<>>
         /\ UNCHANGED tooltip

\* handleMouseLeave that tells the parent but leaves the tooltip up.
handleMouseLeave_KeepTooltip ==
    /\ callbacks' = <<Invoke("onRegionHover", Undefined)>>
    /\ UNCHANGED tooltip

\* handleMouseLeave()
handleMouseLeave ==
    /\ tooltip' = Undefined
    /\ callbacks' = <<Invoke("onRegionHover", Undefined)>>

\* handleRegionClick hiding the tooltip as well.
handleRegionClick_HideTooltip(code) ==
    /\ tooltip' = Undefined
    /\ callbacks' = IF MapHas(data, code)
                    THEN <<Invoke("onRegionClick", Some(MapGet(data, code)))>>
                    ELSE <<>>

\* handleRegionClick(code)
handleRegionClick(code) ==
    /\ callbacks' = IF MapHas(data, code)
                    THEN <<Invoke("onRegionClick", Some(MapGet(data, code)))>>
                    ELSE <<>>
    /\ UNCHANGED tooltip

\* The pointer moves onto the circle of region code:
\* onMouseEnter={(e) => hasData && handleRegionHover(code, e)}
MouseEnterCircle(code, xy) ==
    /\ heatEvent # "none"
    /\ pointer.over = Undefined
    /\ pointer' = [over |-> Some(Circle(code)), x |-> xy[1], y |-> xy[2]]
    /\ IF MapHas(data, code)
       THEN handleRegionHover(code, xy)
       ELSE /\ callbacks' = <<>>
            /\ UNCHANGED tooltip
    /\ heatEvent' = "enter"
    /\ UNCHANGED <<data, config, selectedMetric, range, call, sliderVars, searchVars, matrixVars>>

\* The pointer moves off a circle: onMouseLeave={handleMouseLeave}, which
\* is attached to every circle.
MouseLeaveCircle(code) ==
    /\ heatEvent # "none"
    /\ pointer.over = Some(Circle(code))
    /\ pointer' = [pointer EXCEPT !.over = Undefined]
    /\ handleMouseLeave
    /\ heatEvent' = "leave"
    /\ UNCHANGED <<data, config, selectedMetric, range, call, sliderVars, searchVars, matrixVars>>

\* A click on the circle under the pointer:
\* onClick={() => hasData && handleRegionClick(code)}
ClickCircle(code) ==
    /\ heatEvent # "none"
    /\ pointer.over = Some(Circle(code))
    /\ IF MapHas(data, code)
       THEN handleRegionClick(code)
       ELSE /\ callbacks' = <<>>
            /\ UNCHANGED tooltip
    /\ heatEvent' = "click"
    /\ UNCHANGED <<data, config, selectedMetric, range, pointer, call, sliderVars, searchVars,
                   matrixVars>>

HeatNext ==
    \/ \E m \in Metrics : SelectMetric(m)
    \/ \E d \in Datasets : SetData(d)
    \/ \E c \in Configs : SetConfig(c)

(***************************************************************************)
(* PromoCalibrationSlider                                                  *)
(***************************************************************************)
DebounceWait == 300     \* debounce(..., 300)

MaxDrags    == 3        \* drag events tried
MaxRequests == 2        \* bursts of drags (hence requests) tried

DragValues == {12, 15, 300}
Delays     == {100, 300}
PromoTypes == {"percentage", "volume"}

\* Bodies of PromoSimulationResponse the server may send; the component
\* takes confidence_interval: [number, number] as it comes.
Responses ==
    { [confidence_interval |-> <<12, 18>>, ai_recommended_value |-> 14,
       projected_lift |-> 5, calibration_score |-> 9, latency_ms |-> 40],
      [confidence_interval |-> <<11, 8>>, ai_recommended_value |-> 10,
       projected_lift |-> 3, calibration_score |-> 7, latency_ms |-> 55] }

\* getSliderConfig() for the promoType prop.
getSliderConfig(type) ==
    IF type = "percentage"
    THEN [min |-> 0, max |-> 50, step |-> 1]
    ELSE [min |-> 0, max |-> 500, step |-> 10]

\* The values the range input can report: min, min + step, ... up to max.
InputValues(cfg) ==
    { v \in DragValues : cfg.min <= v /\ v <= cfg.max /\ (v - cfg.min) % cfg.step = 0 }

\* calculatePosition(value) as the fraction <<numerator, denominator>> of
\* ((value - min) / range) * 100
calculatePosition(value, cfg) == <<(value - cfg.min) * 100, cfg.max - cfg.min>>

\* The debounce timer has run out and its callback is the next thing to run.
TimerDue == timerId /\ elapsed >= DebounceWait

SliderInit ==
    /\ promoType \in PromoTypes /\ externalLoading = FALSE
    /\ sliderValue = initialAiValue /\ aiRecommendedValue = initialAiValue
    /\ confidenceInterval = initialConfidenceInterval
    /\ projectedLift = 0 /\ calibrationScore = 8 /\ isLoading = FALSE /\ latencyMs = 0
    /\ abortControllerRef = 0
    /\ mounted = TRUE /\ disabled = FALSE
    /\ timerId = FALSE /\ lastArgs = Undefined /\ elapsed = DebounceWait
    /\ requests = <<>>
    /\ lastDrag = Undefined /\ dragCount = 0
    /\ valueChange = [count |-> 0, last |-> Undefined]
    /\ burst = [drags |-> 0, requests |-> 0]
    /\ atIssue = Undefined
    /\ teardown = Undefined
    /\ call = NoCall
    /\ HeatOff
    /\ MatrixOff
    /\ UiOff
    /\ SearchOff

\* abortControllerRef.current.abort(): the fetch of that controller, if still
\* pending, will reject with AbortError; aborting a settled fetch does nothing.
Abort(reqs, ref) ==
    IF ref # 0 /\ reqs[ref].status = "pending"
    THEN [reqs EXCEPT ![ref].status = "aborted"]
    ELSE reqs

\* History: the request of controller ref was still pending when superseded.
Superseded(reqs, ref) ==
    IF ref # 0 /\ reqs[ref].status = "pending"
    THEN [reqs EXCEPT ![ref].overlapped = TRUE]
    ELSE reqs

NewRequest(value) ==
    [promo_value |-> value, status |-> "pending", response |-> Undefined,
     overlapped |-> FALSE, sinceDrag |-> elapsed]

\* callInferenceAPI without aborting the previous controller.
callInferenceAPI_NoAbort(value) ==
    /\ requests' = Append(requests, NewRequest(value))
    /\ abortControllerRef' = Len(requests) + 1
    /\ isLoading' = TRUE

\* callInferenceAPI(value) up to the await of fetch.
callInferenceAPI(value) ==
    /\ requests' = Append(Abort(Superseded(requests, abortControllerRef),
                                abortControllerRef),
                          NewRequest(value))
    /\ abortControllerRef' = Len(requests) + 1
    /\ isLoading' = TRUE

\* The optimistic update that forgets the external callback.
OptimisticUpdate_NoCallback(newValue) ==
    /\ sliderValue' = newValue
    /\ UNCHANGED valueChange

\* setSliderValue(newValue); onValueChange(newValue)
OptimisticUpdate(newValue) ==
    /\ sliderValue' = newValue
    /\ valueChange' = [count |-> valueChange.count + 1, last |-> Some(newValue)]

\* debouncedInference(value): (re)arm the single-shot timer, keep the last argument.
debouncedInference(value) ==
    /\ timerId' = TRUE
    /\ lastArgs' = Some(value)
    /\ elapsed' = 0

\* onChange of the range input.  The browser delivers no change event to a
\* disabled input.  Timers are punctual: a timer that has run out fires
\* before any later event of the user or the parent is handled.
handleSliderChange(newValue) ==
    /\ mounted /\ ~disabled /\ ~TimerDue
    /\ newValue \in InputValues(getSliderConfig(promoType))
    /\ dragCount < MaxDrags
    /\ timerId \/ Len(requests) < MaxRequests
    /\ OptimisticUpdate(newValue)
    /\ debouncedInference(newValue)
    /\ lastDrag' = Some(newValue)
    /\ dragCount' = dragCount + 1
    /\ burst' = IF elapsed < DebounceWait
                THEN [burst EXCEPT !.drags = @ + 1]
                ELSE [drags |-> 1, requests |-> 0]
    /\ UNCHANGED <<propVars, serverFields, isLoading, abortControllerRef, mounted,
                   disabled, requests, atIssue, teardown,
                   colorVars, heatVars, matrixVars, uiVars, searchVars>>

\* React has committed the latest state and props to the DOM.
Committed == ~mounted \/ disabled = (isLoading \/ externalLoading)

\* d ms pass.  A pending timer is not overrun, and a scheduled render is
\* committed before measurable time passes.
Tick(d) ==
    /\ elapsed + d <= DebounceWait
    /\ Committed
    /\ elapsed' = elapsed + d
    /\ UNCHANGED <<propVars, sliderValue, serverFields, isLoading, abortControllerRef,
                   mounted, disabled, timerVars, requests, histVars,
                   colorVars, heatVars, matrixVars, uiVars, searchVars>>

\* The debounce timer fires: the trailing call callInferenceAPI(lastArgs).
TimerFire ==
    /\ TimerDue
    /\ timerId' = FALSE
    /\ lastArgs' = Undefined
    /\ callInferenceAPI(lastArgs[1])
    /\ burst' = [burst EXCEPT !.requests = @ + 1]
    /\ atIssue' = Some(serverFields)
    /\ UNCHANGED <<propVars, sliderValue, serverFields, mounted, disabled, elapsed,
                   lastDrag, dragCount, valueChange, teardown,
                   colorVars, heatVars, matrixVars, uiVars, searchVars>>

\* The five setters that also move the slider to the server's recommendation.
ApplyResponse_MoveSlider(resp) ==
    /\ confidenceInterval' = resp.confidence_interval
    /\ aiRecommendedValue' = resp.ai_recommended_value
    /\ projectedLift' = resp.projected_lift
    /\ calibrationScore' = resp.calibration_score
    /\ latencyMs' = resp.latency_ms
    /\ sliderValue' = resp.ai_recommended_value

\* The five setters after await response.json().
ApplyResponse(resp) ==
    /\ confidenceInterval' = resp.confidence_interval
    /\ aiRecommendedValue' = resp.ai_recommended_value
    /\ projectedLift' = resp.projected_lift
    /\ calibrationScore' = resp.calibration_score
    /\ latencyMs' = resp.latency_ms
    /\ UNCHANGED sliderValue

\* fetch of request i resolves with an OK response carrying resp.
ResponseOk(i, resp) ==
    /\ requests[i].status = "pending"
    /\ requests' = [requests EXCEPT ![i].status = "ok", ![i].response = Some(resp)]
    /\ ApplyResponse(resp)
    /\ isLoading' = FALSE
    /\ UNCHANGED <<propVars, abortControllerRef, mounted, disabled, timerVars, elapsed,
                   histVars, colorVars, heatVars, matrixVars, uiVars, searchVars>>

\* A catch block that rolls the optimistic value back.
CatchError_Rollback ==
    /\ sliderValue' = aiRecommendedValue
    /\ UNCHANGED serverFields

\* catch (error): console.error only.
CatchError ==
    UNCHANGED <<sliderValue, serverFields>>

\* fetch of request i rejects (network error) or resolves with a non-OK status.
ResponseFail(i) ==
    /\ requests[i].status = "pending"
    /\ requests' = [requests EXCEPT ![i].status = "failed"]
    /\ CatchError
    /\ isLoading' = FALSE
    /\ UNCHANGED <<propVars, abortControllerRef, mounted, disabled, timerVars, elapsed,
                   histVars, colorVars, heatVars, matrixVars, uiVars, searchVars>>

\* The aborted fetch of request i rejects with AbortError: catch is silent,
\* finally runs.
AbortSettle(i) ==
    /\ requests[i].status = "aborted"
    /\ requests' = [requests EXCEPT ![i].status = "cancelled"]
    /\ isLoading' = FALSE
    /\ UNCHANGED <<propVars, sliderValue, serverFields, abortControllerRef, mounted,
                   disabled, timerVars, elapsed, histVars,
                   colorVars, heatVars, matrixVars, uiVars, searchVars>>

\* A cleanup that cancels the timer but leaves the fetch running.
Cleanup_NoAbort ==
    /\ timerId' = FALSE
    /\ lastArgs' = Undefined
    /\ UNCHANGED requests

\* The effect's cleanup: debouncedInference.cancel(); abort the controller.
Cleanup ==
    /\ timerId' = FALSE
    /\ lastArgs' = Undefined
    /\ requests' = Abort(requests, abortControllerRef)

\* The parent re-renders with another skuId / currentPrice / promoType:
\* callInferenceAPI and debouncedInference get new identities, so the effect
\* with dependency [debouncedInference] is cleaned up and run again.  The
\* render that brings the props commits disabled={loading} as well.
PropChange(p) ==
    /\ mounted /\ ~TimerDue
    /\ p # promoType
    /\ promoType' = p
    /\ Cleanup
    /\ disabled' = (isLoading \/ externalLoading)
    /\ UNCHANGED <<externalLoading, sliderValue, serverFields, isLoading,
                   abortControllerRef, mounted, elapsed, histVars,
                   colorVars, heatVars, matrixVars, uiVars, searchVars>>

\* The parent changes the isLoading prop.  New props come with a render of
\* the component, which commits disabled={loading} in the same task.
SetExternalLoading(b) ==
    /\ mounted /\ ~TimerDue
    /\ b # externalLoading
    /\ externalLoading' = b
    /\ disabled' = (isLoading \/ b)
    /\ UNCHANGED <<promoType, sliderValue, serverFields, isLoading, abortControllerRef,
                   mounted, timerVars, elapsed, requests, histVars,
                   colorVars, heatVars, matrixVars, uiVars, searchVars>>

\* React commits a render: disabled={loading}, loading = isLoading || externalLoading.
Render ==
    /\ ~Committed
    /\ disabled' = (isLoading \/ externalLoading)
    /\ UNCHANGED <<propVars, sliderValue, serverFields, isLoading, abortControllerRef,
                   mounted, timerVars, elapsed, requests, histVars,
                   colorVars, heatVars, matrixVars, uiVars, searchVars>>

\* The component is unmounted: the effect's cleanup runs.
Unmount ==
    /\ mounted /\ ~TimerDue
    /\ mounted' = FALSE
    /\ Cleanup
    /\ teardown' = Some([timer |-> timerId,
                         inflight |-> (abortControllerRef # 0
                                       /\ requests[abortControllerRef].status = "pending")])
    /\ UNCHANGED <<propVars, sliderValue, serverFields, isLoading, abortControllerRef,
                   disabled, elapsed, lastDrag, dragCount, valueChange, burst, atIssue,
                   colorVars, heatVars, matrixVars, uiVars, searchVars>>

Next ==
    \/ \E v \in DragValues : handleSliderChange(v)
    \/ \E d \in Delays : Tick(d)
    \/ TimerFire
    \/ \E i \in 1 .. Len(requests) : \E r \in Responses : ResponseOk(i, r)
    \/ \E i \in 1 .. Len(requests) : ResponseFail(i)
    \/ \E i \in 1 .. Len(requests) : AbortSettle(i)
    \/ \E p \in PromoTypes : PropChange(p)
    \/ \E b \in BOOLEAN : SetExternalLoading(b)
    \/ Render
    \/ Unmount

(***************************************************************************)
(* Inputs of getColorFromScale                                             *)
(***************************************************************************)
MaxValue  == 5      \* largest value / min / max tried
Below     == 2      \* values go down to -Below
MaxColors == 5      \* longest palette tried

ColorPool == DEFAULT_COLOR_SCALE \o <<"#3b82f6", "#a855f7">>
Scales    == { SubSeq(ColorPool, 1, n) : n \in 1 .. MaxColors }
Values    == (0 - Below) .. MaxValue
Domain    == 0 .. (MaxValue - 1)

ColorInit ==
    /\ call \in [pc : {"called"}, value : Values, min : Domain, max : Domain,
                 colorScale : Scales, result : {Undefined}]
    /\ HeatOff
    /\ MatrixOff
    /\ UiOff
    /\ SearchOff
    /\ SliderOff

\* The call returns.
ColorReturn ==
    /\ call.pc = "called"
    /\ call' = [call EXCEPT !.pc = "returned",
                            !.result = getColorFromScale(call.value, call.min,
                                                         call.max, call.colorScale)]
    /\ UNCHANGED <<heatVars, sliderVars, searchVars, matrixVars, uiVars>>

ColorNext == ColorReturn

(***************************************************************************)
(* VendorMatrix                                                            *)
(***************************************************************************)
\* data.matrix.flat()
RECURSIVE Flat(_)
Flat(rows) == IF Len(rows) = 0 THEN <<>> ELSE Head(rows) \o Flat(Tail(rows))

\* The order of the vendor names under String.prototype.localeCompare.
Collation == [Acme |-> 1, Bolt |-> 2, Core |-> 3]
localeCompare(a, b) == Collation[a] - Collation[b]

\* One step of a stable sort: x goes before the first element that the
\* comparator cmp (a function of two elements) puts after it, that is
\* behind every element comparing equal.
RECURSIVE InsertStable(_, _, _)
InsertStable(cmp, sorted, x) ==
    IF Len(sorted) = 0 THEN <<x>>
    ELSE IF cmp[Head(sorted), x] > 0 THEN <<x>> \o sorted
    ELSE <<Head(sorted)>> \o InsertStable(cmp, Tail(sorted), x)

\* x goes before the first element not smaller than it: equal elements end
\* up in reverse order.
RECURSIVE InsertUnstable(_, _, _)
InsertUnstable(cmp, sorted, x) ==
    IF Len(sorted) = 0 THEN <<x>>
    ELSE IF cmp[Head(sorted), x] >= 0 THEN <<x>> \o sorted
    ELSE <<Head(sorted)>> \o InsertUnstable(cmp, Tail(sorted), x)

RECURSIVE ArraySort_Unstable(_, _)
ArraySort_Unstable(cmp, arr) ==
    IF Len(arr) = 0 THEN <<>>
    ELSE InsertUnstable(cmp, ArraySort_Unstable(cmp, SubSeq(arr, 1, Len(arr) - 1)),
                        arr[Len(arr)])

\* Array.prototype.sort(cmp), which is stable.
RECURSIVE ArraySort(_, _)
ArraySort(cmp, arr) ==
    IF Len(arr) = 0 THEN <<>>
    ELSE InsertStable(cmp, ArraySort(cmp, SubSeq(arr, 1, Len(arr) - 1)),
                      arr[Len(arr)])

\* The three comparators of sortedVendors over the vendors of d.
Comparator(d, by) ==
    LET cells == Flat(d.matrix)
        vs    == { d.vendors[i] : i \in 1 .. Len(d.vendors) }
        pricedCount(v) ==
            LET pred(c) == c.vendor_id = v.vendor_id /\ c.has_pricing
            IN  Len(SelectSeq(cells, pred))
        rankOneCount(v) ==
            LET pred(c) == c.vendor_id = v.vendor_id /\ c.price_rank = Some(1)
            IN  Len(SelectSeq(cells, pred))
    IN  [a \in vs, b \in vs |->
            CASE by = "name"     -> localeCompare(a.vendor_name, b.vendor_name)
              [] by = "coverage" -> pricedCount(b) - pricedCount(a)
              [] by = "price"    -> rankOneCount(b) - rankOneCount(a)]

\* The vendors sorted by an algorithm that reverses ties.
SortVendors_Unstable(d, by) ==
    IF by \in {"name", "coverage", "price"}
    THEN ArraySort_Unstable(Comparator(d, by), d.vendors)
    ELSE d.vendors

\* The useMemo body of sortedVendors: a copy of d.vendors, sorted.
SortVendors(d, by) ==
    IF by \in {"name", "coverage", "price"}
    THEN ArraySort(Comparator(d, by), d.vendors)
    ELSE d.vendors

\* The useMemo body of filteredSKUs.
FilteredSKUs(skus, category) ==
    IF category = "" THEN skus
    ELSE LET pred(sku) == sku.category = category IN SelectSeq(skus, pred)

\* (a / b) * 100 in floating point: NaN for 0 / 0, Infinity for a / 0,
\* otherwise the percentage, kept in hundredths of a percent.
Percent(a, b) ==
    IF b = 0 THEN (IF a = 0 THEN <<"NaN">> ELSE <<"Infinity">>)
    ELSE <<"%", (a * 10000) \div b>>

\* The statistics with the coverage taken over the category-filtered SKUs.
ComputeVendorStats_Filtered(sorted, d) ==
    LET cells == Flat(d.matrix)
        ids   == { sorted[i].vendor_id : i \in 1 .. Len(sorted) }
        shown == FilteredSKUs(d.skus, filterCategory)
    IN  [id \in ids |->
            LET ofVendor(c)   == c.vendor_id = id
                vendorCells   == SelectSeq(cells, ofVendor)
                hasPricing(c) == c.has_pricing
                rankOne(c)    == c.price_rank = Some(1)
            IN  [coverage  |-> Percent(Len(SelectSeq(vendorCells, hasPricing)), Len(shown)),
                 bestPrice |-> Len(SelectSeq(vendorCells, rankOne))]]

\* The useMemo body of vendorStats: a Map from vendor_id.
ComputeVendorStats(sorted, d) ==
    LET cells == Flat(d.matrix)
        ids   == { sorted[i].vendor_id : i \in 1 .. Len(sorted) }
    IN  [id \in ids |->
            LET ofVendor(c)   == c.vendor_id = id
                vendorCells   == SelectSeq(cells, ofVendor)
                hasPricing(c) == c.has_pricing
                rankOne(c)    == c.price_rank = Some(1)
            IN  [coverage  |-> Percent(Len(SelectSeq(vendorCells, hasPricing)),
                                       Len(d.skus)),
                 bestPrice |-> Len(SelectSeq(vendorCells, rankOne))]]

\* A SKU counted as single-source as soon as one cell exists for it.
isSingleSource_AnyCell(skuId) ==
    LET pred(c) == c.sku_id = skuId
    IN  Len(SelectSeq(Flat(matrixData.matrix), pred)) = 1

\* The isSingleSource callback over the current data.matrix.
isSingleSource(skuId) ==
    LET pred(c) == c.sku_id = skuId /\ c.has_pricing
    IN  Len(SelectSeq(Flat(matrixData.matrix), pred)) = 1

MaxVendors == 2     \* most vendors in data.vendors and rows in data.matrix

VendorPool == << [vendor_id |-> "V1", vendor_name |-> "Bolt"],
                 [vendor_id |-> "V2", vendor_name |-> "Acme"],
                 [vendor_id |-> "V3", vendor_name |-> "Bolt"] >>
SkuPool    == << [sku_id |-> "S1", category |-> "flooring"],
                 [sku_id |-> "S2", category |-> "lumber"] >>

\* A VendorMatrixCell: without pricing, priced with the best price, or
\* priced with the second best.
CellKinds == {"none", "best", "other"}
Cell(vendorId, skuId, kind) ==
    [vendor_id   |-> vendorId,
     sku_id      |-> skuId,
     has_pricing |-> kind # "none",
     price_rank  |-> CASE kind = "best"  -> Some(1)
                       [] kind = "other" -> Some(2)
                       [] OTHER          -> Undefined]

\* The rows a vendor can have: one cell per SKU of the pool.
RowKinds == { <<k1, k2>> : k1 \in CellKinds, k2 \in {"none", "best"} }
Row(v, kinds) == [j \in 1 .. Len(SkuPool) |->
                     Cell(VendorPool[v].vendor_id, SkuPool[j].sku_id, kinds[j])]
Matrices == { [v \in 1 .. MaxVendors |-> Row(v, f[v])] : f \in [1 .. MaxVendors -> RowKinds] }

\* data.vendors: the vendors in any order.
VendorLists ==
    { [i \in 1 .. MaxVendors |-> VendorPool[f[i]]] :
        f \in { g \in [1 .. MaxVendors -> 1 .. MaxVendors] :
                  \A i, j \in 1 .. MaxVendors : i # j => g[i] # g[j] } }
SortKeys == {"name", "coverage", "price"}

\* The categories offered by the category <select>.
Categories(skus) == { skus[i].category : i \in 1 .. Len(skus) }

\* The elements of the table that take mouse events: the <td> of a vendor
\* and a SKU, the vendor-name <td> and the sku-header <th>.
Td(vendorId, skuId)  == <<"td", vendorId, skuId>>
VendorName(vendorId) == <<"vendor-name", vendorId>>
SkuHeader(skuId)     == <<"sku-header", skuId>>

\* The elements rendered for the rows sorted and the columns shown.
MatrixElements(sorted, shown) ==
    LET rows == 1 .. Len(sorted)
        cols == 1 .. Len(shown)
    IN  { Td(sorted[i].vendor_id, shown[j].sku_id) : i \in rows, j \in cols }
        \cup { VendorName(sorted[i].vendor_id) : i \in rows }
        \cup { SkuHeader(shown[j].sku_id) : j \in cols }

\* The pointer after a re-render: an element that is no longer rendered
\* is no longer under it (and gets no mouseleave).
StillOver(ptr, elements) ==
    IF ptr.over # Undefined /\ ptr.over[1] \notin elements
    THEN [ptr EXCEPT !.over = Undefined]
    ELSE ptr

\* getCell(vendorId, skuId): the first such cell of data.matrix.flat(), or undefined.
getCell(d, vendorId, skuId) ==
    LET pred(c) == c.vendor_id = vendorId /\ c.sku_id = skuId
        found   == SelectSeq(Flat(d.matrix), pred)
    IN  IF Len(found) = 0 THEN Undefined ELSE Some(found[1])

\* The two memos as computed by a render with data d and sort key by.
MatrixRender(d, by) ==
    /\ sortedVendors' = SortVendors(d, by)
    /\ vendorStats' = ComputeVendorStats(sortedVendors', d)

\* useState('coverage'), useState(''); the memos are computed on the first render.
MatrixMount(datas) ==
    /\ matrixData \in datas
    /\ sortBy = "coverage"
    /\ filterCategory = ""
    /\ sortedVendors = SortVendors(matrixData, sortBy)
    /\ vendorStats = ComputeVendorStats(sortedVendors, matrixData)
    /\ matrixEvent = "mount"
    /\ cellTooltip = Undefined
    /\ call = NoCall
    /\ HeatOff
    /\ SliderOff
    /\ UiOff
    /\ SearchOff

MatrixInit == MatrixMount([vendors : VendorLists, skus : {SkuPool}, matrix : Matrices])

\* onChange of the sort <select>.
SetSortBy(by) ==
    /\ matrixEvent # "none"
    /\ by # sortBy
    /\ sortBy' = by
    /\ MatrixRender(matrixData, by)
    /\ matrixEvent' = "sort"
    /\ callbacks' = <<>>
    /\ UNCHANGED <<matrixData, filterCategory, cellTooltip, pointer,
                   colorVars, heatVars, sliderVars, searchVars>>

\* onChange of the category <select>; neither memo depends on the category.
SetFilterCategory(c) ==
    /\ matrixEvent # "none"
    /\ c \in {""} \cup Categories(matrixData.skus)
    /\ c # filterCategory
    /\ filterCategory' = c
    /\ matrixEvent' = "category"
    /\ callbacks' = <<>>
    /\ pointer' = StillOver(pointer, MatrixElements(sortedVendors,
                                                    FilteredSKUs(matrixData.skus, c)))
    /\ UNCHANGED <<matrixData, sortBy, sortedVendors, vendorStats, cellTooltip,
                   colorVars, heatVars, sliderVars, searchVars>>

\* The parent passes new data: one cell of the matrix differs.
SetCell(v, j, kind) ==
    LET row == [matrixData.matrix[v] EXCEPT
                   ![j] = Cell(VendorPool[v].vendor_id, SkuPool[j].sku_id, kind)]
    IN  /\ matrixEvent # "none"
        /\ row # matrixData.matrix[v]
        /\ row \in { Row(v, kinds) : kinds \in RowKinds }
        /\ matrixData' = [matrixData EXCEPT !.matrix[v] = row]
        /\ MatrixRender(matrixData', sortBy)
        /\ matrixEvent' = "cell"
        /\ callbacks' = <<>>
        /\ UNCHANGED <<sortBy, filterCategory, cellTooltip, pointer,
                       colorVars, heatVars, sliderVars, searchVars>>

\* The parent passes new data: another vendor list.
SetVendors(list) ==
    /\ matrixEvent # "none"
    /\ list # matrixData.vendors
    /\ matrixData' = [matrixData EXCEPT !.vendors = list]
    /\ MatrixRender(matrixData', sortBy)
    /\ matrixEvent' = "vendors"
    /\ callbacks' = <<>>
    /\ UNCHANGED <<sortBy, filterCategory, cellTooltip, pointer,
                   colorVars, heatVars, sliderVars, searchVars>>

\* The parent passes new data.
SetMatrixData(d) ==
    /\ matrixEvent # "none"
    /\ d # matrixData
    /\ matrixData' = d
    /\ MatrixRender(d, sortBy)
    /\ matrixEvent' = "data"
    /\ callbacks' = <<>>
    /\ pointer' = StillOver(pointer, MatrixElements(sortedVendors',
                                                    FilteredSKUs(d.skus, filterCategory)))
    /\ UNCHANGED <<sortBy, filterCategory, cellTooltip,
                   colorVars, heatVars, sliderVars, searchVars>>

\* The columns rendered.
filteredSKUs == FilteredSKUs(matrixData.skus, filterCategory)

\* handleCellHover(cell, vendor, sku, event)
handleCellHover(cell, vendor, sku, xy) ==
    IF cell.has_pricing
    THEN cellTooltip' = Some([cell |-> cell, vendor |-> vendor, sku |-> sku,
                              x |-> xy[1], y |-> xy[2]])
    ELSE UNCHANGED cellTooltip

\* handleMouseLeave() of VendorMatrix
handleCellMouseLeave == cellTooltip' = Undefined

\* The pointer moves onto the <td> of row i and column j:
\* onMouseEnter={(e) => cell && handleCellHover(cell, vendor, sku, e)}
MouseEnterCell(i, j, xy) ==
    LET vendor == sortedVendors[i]
        sku    == filteredSKUs[j]
        cell   == getCell(matrixData, vendor.vendor_id, sku.sku_id)
    IN  /\ matrixEvent # "none"
        /\ pointer.over = Undefined
        /\ pointer' = [over |-> Some(Td(vendor.vendor_id, sku.sku_id)),
                       x |-> xy[1], y |-> xy[2]]
        /\ IF cell # Undefined
           THEN handleCellHover(cell[1], vendor, sku, xy)
           ELSE UNCHANGED cellTooltip
        /\ callbacks' = <<>>
        /\ matrixEvent' = "enter"
        /\ UNCHANGED <<matrixData, sortBy, filterCategory, sortedVendors, vendorStats,
                       colorVars, heatVars, sliderVars, searchVars>>

\* The pointer moves off the <td> it is over: onMouseLeave={handleMouseLeave}
MouseLeaveCell ==
    /\ matrixEvent # "none"
    /\ pointer.over # Undefined
    /\ pointer.over[1][1] = "td"
    /\ pointer' = [pointer EXCEPT !.over = Undefined]
    /\ handleCellMouseLeave
    /\ callbacks' = <<>>
    /\ matrixEvent' = "leave"
    /\ UNCHANGED <<matrixData, sortBy, filterCategory, sortedVendors, vendorStats,
                   colorVars, heatVars, sliderVars, searchVars>>

\* A click on the <td> under the pointer: onClick={() => cell && onCellClick?.(cell)}
ClickCell(i, j) ==
    LET vendor == sortedVendors[i]
        sku    == filteredSKUs[j]
        cell   == getCell(matrixData, vendor.vendor_id, sku.sku_id)
    IN  /\ matrixEvent # "none"
        /\ pointer.over = Some(Td(vendor.vendor_id, sku.sku_id))
        /\ callbacks' = IF cell # Undefined
                        THEN <<Invoke("onCellClick", cell)>>
                        ELSE <<>>
        /\ matrixEvent' = "click"
        /\ UNCHANGED <<matrixData, sortBy, filterCategory, sortedVendors, vendorStats,
                       cellTooltip, pointer, colorVars, heatVars, sliderVars, searchVars>>

\* The pointer moves onto a vendor name or a SKU header, which have no
\* mouseenter handler.
MouseEnterLabel(e, xy) ==
    /\ matrixEvent # "none"
    /\ pointer.over = Undefined
    /\ e \in MatrixElements(sortedVendors, filteredSKUs)
    /\ e[1] # "td"
    /\ pointer' = [over |-> Some(e), x |-> xy[1], y |-> xy[2]]
    /\ callbacks' = <<>>
    /\ matrixEvent' = "enter"
    /\ UNCHANGED <<matrixData, sortBy, filterCategory, sortedVendors, vendorStats,
                   cellTooltip, colorVars, heatVars, sliderVars, searchVars>>

\* The pointer moves off a vendor name or a SKU header (no handler).
MouseLeaveLabel ==
    /\ matrixEvent # "none"
    /\ pointer.over # Undefined
    /\ pointer.over[1][1] \in {"vendor-name", "sku-header"}
    /\ pointer' = [pointer EXCEPT !.over = Undefined]
    /\ callbacks' = <<>>
    /\ matrixEvent' = "leave"
    /\ UNCHANGED <<matrixData, sortBy, filterCategory, sortedVendors, vendorStats,
                   cellTooltip, colorVars, heatVars, sliderVars, searchVars>>

\* A click on the vendor name under the pointer: onClick={() => onVendorClick?.(vendor)}
ClickVendorName(i) ==
    /\ matrixEvent # "none"
    /\ pointer.over = Some(VendorName(sortedVendors[i].vendor_id))
    /\ callbacks' = <<Invoke("onVendorClick", Some(sortedVendors[i]))>>
    /\ matrixEvent' = "click"
    /\ UNCHANGED <<matrixData, sortBy, filterCategory, sortedVendors, vendorStats,
                   cellTooltip, pointer, colorVars, heatVars, sliderVars, searchVars>>

\* A click on the SKU header under the pointer: onClick={() => onSKUClick?.(sku)}
ClickSkuHeader(j) ==
    /\ matrixEvent # "none"
    /\ pointer.over = Some(SkuHeader(filteredSKUs[j].sku_id))
    /\ callbacks' = <<Invoke("onSKUClick", Some(filteredSKUs[j]))>>
    /\ matrixEvent' = "click"
    /\ UNCHANGED <<matrixData, sortBy, filterCategory, sortedVendors, vendorStats,
                   cellTooltip, pointer, colorVars, heatVars, sliderVars, searchVars>>

MatrixNext ==
    \/ \E by \in SortKeys : SetSortBy(by)
    \/ \E c \in {""} \cup Categories(SkuPool) : SetFilterCategory(c)
    \/ \E v \in 1 .. MaxVendors : \E j \in 1 .. Len(SkuPool) : \E kind \in CellKinds :
          SetCell(v, j, kind)
    \/ \E list \in VendorLists : SetVendors(list)

(***************************************************************************)
(* Mouse events on PricingHeatmap and VendorMatrix                         *)
(***************************************************************************)
\* Region collections for the mouse events: the first regions of the map,
\* so that the circles of the other regions have no data.
HoverDatasets ==
    { d \in Datasets :
        \A i \in 1 .. Len(d) :
           d[i] = Region(i, [avg_price |-> 190, vendor_count |-> 3, sku_count |-> 4,
                             price_index |-> 1]) }
HoverConfigs ==
    { [minValue |-> Undefined, maxValue |-> Undefined],
      [minValue |-> Some(0), maxValue |-> Some(200)] }

\* Matrix data for the mouse events: priced cells, a cell without pricing
\* and a position without a cell.
HoverMatrixData ==
    { [vendors |-> <<VendorPool[1], VendorPool[2]>>, skus |-> SkuPool,
       matrix  |-> << <<Cell("V1", "S1", "best"), Cell("V1", "S2", "none")>>,
                      <<Cell("V2", "S1", "other")>> >>],
      [vendors |-> <<VendorPool[1], VendorPool[2]>>, skus |-> SkuPool,
       matrix  |-> << <<Cell("V1", "S1", "none"), Cell("V1", "S2", "best")>>,
                      <<Cell("V2", "S1", "best")>> >>] }

\* One of the two components is mounted and the pointer is elsewhere.
PointerInit ==
    \/ /\ HeatInit
       /\ data \in HoverDatasets
       /\ config \in HoverConfigs
    \/ MatrixMount(HoverMatrixData)

PointerNext ==
    \/ \E code \in Markers : \E xy \in Coords : MouseEnterCircle(code, xy)
    \/ \E code \in Markers : MouseLeaveCircle(code)
    \/ \E code \in Markers : ClickCircle(code)
    \/ \E m \in Metrics : SelectMetric(m)
    \/ \E d \in HoverDatasets : SetData(d)
    \/ \E c \in HoverConfigs : SetConfig(c)
    \/ \E i \in 1 .. Len(sortedVendors) : \E j \in 1 .. Len(filteredSKUs) :
          \E xy \in Coords : MouseEnterCell(i, j, xy)
    \/ MouseLeaveCell
    \/ \E i \in 1 .. Len(sortedVendors) : \E j \in 1 .. Len(filteredSKUs) : ClickCell(i, j)
    \/ \E e \in MatrixElements(sortedVendors, filteredSKUs) : \E xy \in Coords :
          MouseEnterLabel(e, xy)
    \/ MouseLeaveLabel
    \/ \E i \in 1 .. Len(sortedVendors) : ClickVendorName(i)
    \/ \E j \in 1 .. Len(filteredSKUs) : ClickSkuHeader(j)
    \/ \E by \in SortKeys : SetSortBy(by)
    \/ \E c \in {""} \cup Categories(SkuPool) : SetFilterCategory(c)
    \/ \E d \in HoverMatrixData : SetMatrixData(d)

(***************************************************************************)
(* SKUSearch                                                               *)
(***************************************************************************)
MaxEvents == 4      \* user events (edits, field changes, clears, resets) tried

\* The onSearch callbacks the parent passes, one after the other.
Identities == 1 .. 2

QueryTexts     == {"", "a", "ab"}
CategoryValues == {"", "flooring"}
PriceValues    == {Undefined, Some(0), Some(5)}

\* The initialFilters prop: the default {} or filters set by the parent.
InitialFilters ==
    { EmptyFilters,
      [EmptyFilters EXCEPT !.category = Some("flooring"), !.is_active = Some(FALSE)] }

\* !value for the optional value of field key: undefined, '', 0 and false
\* are falsy.
Falsy(key, value) ==
    \/ value = Undefined
    \/ key \in {"query", "category"} /\ value = Some("")
    \/ key = "min_price" /\ value = Some(0)
    \/ key = "is_active" /\ value = Some(FALSE)

\* value || undefined
OrUndefined(key, value) == IF Falsy(key, value) THEN Undefined ELSE value

\* Object.values(filters).filter((v) => v !== undefined && v !== '').length
activeFilterCount ==
    Cardinality({ key \in DOMAIN filters :
                    /\ filters[key] # Undefined
                    /\ ~(key \in {"query", "category"} /\ filters[key] = Some("")) })

\* One invocation of the onSearch callback of identity id.
SearchCall(id, f) == [fn |-> "onSearch", identity |-> id, arg |-> f]

\* No debounce instance has a pending timer.
NoTimers == [id \in Identities |-> Undefined]

\* The timer of some debounce instance has run out.
SearchTimerDue == \E id \in DOMAIN timers : timers[id] # Undefined /\ timers[id][1].wait = 0

\* A user event can be handled: the component is mounted and no timer
\* callback is due first.
CanHandle == searchMounted /\ ~SearchTimerDue

\* debouncedSearch(newFilters): the instance made for the current onSearch
\* (re)starts its timer and keeps the arguments of this call.
debouncedSearch(newFilters) ==
    timers' = [timers EXCEPT ![onSearch] = Some([args |-> newFilters, wait |-> DebounceWait])]

\* handleQueryChange(e) with e.target.value = text
handleQueryChange(text) ==
    LET newFilters == [filters EXCEPT !.query = Some(text)]
    IN  /\ filters' = newFilters
        /\ debouncedSearch(newFilters)
        /\ callbacks' = <<>>

\* handleFilterChange(key, value)
handleFilterChange(key, value) ==
    LET newFilters == [filters EXCEPT ![key] = OrUndefined(key, value)]
    IN  /\ filters' = newFilters
        /\ callbacks' = <<SearchCall(onSearch, newFilters)>>
        /\ UNCHANGED timers

\* handleClearFilters that only resets the record.
handleClearFilters_NoDispatch ==
    /\ filters' = EmptyFilters
    /\ callbacks' = <<>>
    /\ UNCHANGED timers

\* handleClearFilters()
handleClearFilters ==
    /\ filters' = EmptyFilters
    /\ callbacks' = <<SearchCall(onSearch, EmptyFilters)>>
    /\ UNCHANGED timers

\* useState(initialFilters); useMemo creates the first debounce instance.
SearchInit ==
    /\ filters \in InitialFilters
    /\ onSearch = 1
    /\ timers = NoTimers
    /\ searchMounted = TRUE
    /\ searchEvent = "mount"
    /\ lastQuery = Undefined
    /\ sinceQuery = DebounceWait
    /\ queryBurst = [edits |-> 0, dispatches |-> 0]
    /\ searchCount = 0
    /\ call = NoCall
    /\ HeatOff
    /\ SliderOff
    /\ MatrixOff
    /\ UiOff

\* What every SKUSearch step leaves alone.
SearchFrame == UNCHANGED <<pointer, colorVars, heatVars, sliderVars, matrixVars>>

\* The user edits the search input: onChange={handleQueryChange}
QueryChange(text) ==
    /\ CanHandle
    /\ searchCount < MaxEvents
    /\ Some(text) # (IF filters.query = Undefined THEN Some("") ELSE filters.query)
    /\ handleQueryChange(text)
    /\ searchEvent' = "query"
    /\ lastQuery' = Some(text)
    /\ sinceQuery' = 0
    /\ queryBurst' = IF sinceQuery < DebounceWait
                     THEN [queryBurst EXCEPT !.edits = @ + 1]
                     ELSE [edits |-> 1, dispatches |-> 0]
    /\ searchCount' = searchCount + 1
    /\ UNCHANGED <<onSearch, searchMounted>>
    /\ SearchFrame

\* What a change of a field other than the typed query leaves alone.
ChangeFrame ==
    /\ searchCount' = searchCount + 1
    /\ UNCHANGED <<onSearch, searchMounted, lastQuery, sinceQuery, queryBurst>>
    /\ SearchFrame

\* The clear-input button, rendered while filters.query is truthy:
\* onClick={() => handleFilterChange('query', '')}
ClearInput ==
    /\ CanHandle
    /\ searchCount < MaxEvents
    /\ ~Falsy("query", filters.query)
    /\ handleFilterChange("query", Some(""))
    /\ searchEvent' = "clear-input"
    /\ ChangeFrame

\* The category <select> (the region and supplier selects are alike):
\* onChange={(e) => handleFilterChange('category', e.target.value)}
SelectCategory(value) ==
    /\ CanHandle
    /\ searchCount < MaxEvents
    /\ Some(value) # (IF filters.category = Undefined THEN Some("") ELSE filters.category)
    /\ handleFilterChange("category", Some(value))
    /\ searchEvent' = "filter"
    /\ ChangeFrame

\* The min-price input (max-price is alike), showing filters.min_price || '':
\* handleFilterChange('min_price', e.target.value ? parseFloat(e.target.value) : undefined)
EnterMinPrice(value) ==
    /\ CanHandle
    /\ searchCount < MaxEvents
    /\ value # OrUndefined("min_price", filters.min_price)
    /\ handleFilterChange("min_price", value)
    /\ searchEvent' = "filter"
    /\ ChangeFrame

\* The 'Active SKUs only' checkbox, checked unless filters.is_active is false:
\* handleFilterChange('is_active', e.target.checked ? undefined : false)
ToggleActiveOnly ==
    LET checked == filters.is_active # Some(FALSE)
    IN  /\ CanHandle
        /\ searchCount < MaxEvents
        /\ handleFilterChange("is_active", IF ~checked THEN Undefined ELSE Some(FALSE))
        /\ searchEvent' = "filter"
        /\ ChangeFrame

\* The Clear button, rendered while activeFilterCount > 0:
\* onClick={handleClearFilters}
ClearFilters ==
    /\ CanHandle
    /\ searchCount < MaxEvents
    /\ activeFilterCount > 0
    /\ handleClearFilters
    /\ searchEvent' = "reset"
    /\ ChangeFrame

\* The parent passes another onSearch callback: useMemo makes a new
\* debounce instance, and nothing cancels the timer of the previous one.
OnSearchChange ==
    /\ CanHandle
    /\ onSearch + 1 \in Identities
    /\ onSearch' = onSearch + 1
    /\ callbacks' = <<>>
    /\ searchEvent' = "prop"
    /\ UNCHANGED <<filters, timers, searchMounted, lastQuery, sinceQuery, queryBurst,
                   searchCount>>
    /\ SearchFrame

\* d ms pass; no pending timer is overrun.
SearchTick(d) ==
    /\ searchEvent # "none"
    /\ \A id \in DOMAIN timers : timers[id] # Undefined => timers[id][1].wait >= d
    /\ timers # NoTimers \/ sinceQuery < DebounceWait
    /\ timers' = [id \in DOMAIN timers |->
                    IF timers[id] = Undefined THEN Undefined
                    ELSE Some([timers[id][1] EXCEPT !.wait = @ - d])]
    /\ sinceQuery' = Min2(DebounceWait, sinceQuery + d)
    /\ callbacks' = <<>>
    /\ searchEvent' = "tick"
    /\ UNCHANGED <<filters, onSearch, searchMounted, lastQuery, queryBurst, searchCount>>
    /\ SearchFrame

\* The timer of the debounce instance made for onSearch identity id runs
\* out: the debounced function calls that onSearch with the last arguments.
SearchTimerFire(id) ==
    /\ searchEvent # "none"
    /\ timers[id] # Undefined
    /\ timers[id][1].wait = 0
    /\ callbacks' = <<SearchCall(id, timers[id][1].args)>>
    /\ timers' = [timers EXCEPT ![id] = Undefined]
    /\ queryBurst' = [queryBurst EXCEPT !.dispatches = @ + 1]
    /\ searchEvent' = "fire"
    /\ UNCHANGED <<filters, onSearch, searchMounted, lastQuery, sinceQuery, searchCount>>
    /\ SearchFrame

\* The component is unmounted; it has no effect cleanup.
SearchUnmount ==
    /\ CanHandle
    /\ searchMounted' = FALSE
    /\ callbacks' = <<>>
    /\ searchEvent' = "unmount"
    /\ UNCHANGED <<filters, onSearch, timers, lastQuery, sinceQuery, queryBurst,
                   searchCount>>
    /\ SearchFrame

SearchNext ==
    \/ \E text \in QueryTexts : QueryChange(text)
    \/ ClearInput
    \/ \E value \in CategoryValues : SelectCategory(value)
    \/ \E value \in PriceValues : EnterMinPrice(value)
    \/ ToggleActiveOnly
    \/ ClearFilters
    \/ OnSearchChange
    \/ \E d \in Delays : SearchTick(d)
    \/ \E id \in Identities : SearchTimerFire(id)
    \/ SearchUnmount

vars == <<colorVars, heatVars, sliderVars, matrixVars, uiVars, searchVars>>

Spec == SliderInit /\ [][Next]_vars

\* The slider with the event loop's scheduling: time passes (the parent
\* cannot re-render for ever within no time), a timer that has run out
\* fires, a scheduled render is committed.
LiveSpec ==
    /\ Spec
    /\ SF_vars(\E d \in Delays : Tick(d))
    /\ WF_vars(TimerFire)
    /\ WF_vars(Render)

ColorSpec == ColorInit /\ [][ColorNext]_vars

HeatSpec == HeatInit /\ [][HeatNext]_vars

MatrixSpec == MatrixInit /\ [][MatrixNext]_vars

PointerSpec == PointerInit /\ [][PointerNext]_vars

SearchSpec == SearchInit /\ [][SearchNext]_vars

(***************************************************************************)
(* Claims about PromoCalibrationSlider                                     *)
(***************************************************************************)
FieldsOf(resp) ==
    <<resp.confidence_interval, resp.ai_recommended_value, resp.projected_lift,
      resp.calibration_score, resp.latency_ms>>

Latest == requests[Len(requests)]

\* C1: once a newer request has been issued, nothing that happens to an
\* earlier request changes confidenceInterval, aiRecommendedValue,
\* projectedLift, calibrationScore or latencyMs; these fields change only by
\* applying the response of the most recently issued request.
C1_LastRequestWins ==
    [][ /\ \A i \in 1 .. (Len(requests) - 1) :
              requests'[i] # requests[i] => serverFields' = serverFields
        /\ serverFields' # serverFields =>
              /\ Len(requests) > 0
              /\ Len(requests') = Len(requests)
              /\ Latest.status = "pending"
              /\ requests'[Len(requests)].status = "ok"
              /\ serverFields' = FieldsOf(requests'[Len(requests)].response[1])
      ]_vars

C1_Witness ==
    /\ Len(requests) >= 2
    /\ Latest.status = "ok"
    /\ serverFields = FieldsOf(Latest.response[1])
    /\ \E i \in 1 .. (Len(requests) - 1) :
          requests[i].overlapped /\ requests[i].status = "cancelled"

\* C2: a burst of drags, each less than 300ms after the previous one,
\* produces exactly one calibration request, carrying the value of the last
\* drag and issued 300ms after it: once the quiet period after the burst is
\* over (and the component is still mounted) that one request exists.
C2_OneRequestPerBurst ==
    /\ burst.requests <= 1
    /\ (mounted /\ burst.drags >= 1 /\ elapsed >= DebounceWait /\ ~timerId) =>
          /\ burst.requests = 1
          /\ Latest.promo_value = lastDrag[1]
          /\ Latest.sinceDrag = DebounceWait

\* C3: every drag sets sliderValue to the dragged value and calls
\* onValueChange with that value in the same step, and issues no request in
\* that step.
C3_OptimisticDrag ==
    [][ dragCount' # dragCount =>
          /\ sliderValue' = lastDrag'[1]
          /\ valueChange' = [count |-> valueChange.count + 1, last |-> lastDrag']
          /\ requests' = requests
      ]_vars

C3_Witness ==
    /\ dragCount = 3
    /\ sliderValue = 15
    /\ valueChange = [count |-> 3, last |-> Some(15)]
    /\ requests = <<>>
    /\ aiRecommendedValue = initialAiValue /\ timerId

\* C4: when a pending request resolves successfully the five server-derived
\* fields become the response's values and sliderValue stays the value of
\* the last drag.
C4_SuccessApplied ==
    [][ \A i \in 1 .. Len(requests) :
          (requests[i].status = "pending" /\ requests'[i].status = "ok") =>
              /\ serverFields' = FieldsOf(requests'[i].response[1])
              /\ sliderValue' = sliderValue
              /\ sliderValue' = IF lastDrag = Undefined THEN initialAiValue
                                ELSE lastDrag[1]
      ]_vars

C4_Witness ==
    /\ Len(requests) >= 1
    /\ Latest.status = "ok"
    /\ serverFields = FieldsOf(Latest.response[1])
    /\ sliderValue = 12 /\ aiRecommendedValue = 10 /\ lastDrag = Some(12)

\* C5: when a request fails other than by cancellation, sliderValue and the
\* five server-derived fields are left as they were; the server-derived
\* fields are still the ones of the moment the request was issued.
C5_FailureKeepsState ==
    [][ \A i \in 1 .. Len(requests) :
          (requests[i].status = "pending" /\ requests'[i].status = "failed") =>
              /\ sliderValue' = sliderValue
              /\ serverFields' = serverFields
              /\ atIssue = Some(serverFields')
      ]_vars

C5_Witness ==
    /\ Len(requests) = 2
    /\ requests[1].status = "ok"
    /\ Latest.status = "failed"
    /\ serverFields = FieldsOf(requests[1].response[1])
    /\ sliderValue = 12 /\ aiRecommendedValue = 14

\* C6: the unmount aborts the request in flight and cancels the pending
\* debounce timer; after it no request is issued and no response is applied.
C6_UnmountCleansUp ==
    [][ /\ ~mounted' =>
              /\ ~timerId'
              /\ \A i \in 1 .. Len(requests') : requests'[i].status # "pending"
        /\ ~mounted =>
              /\ Len(requests') = Len(requests)
              /\ serverFields' = serverFields
      ]_vars

C6_Witness ==
    /\ ~mounted
    /\ teardown = Some([timer |-> TRUE, inflight |-> TRUE])
    /\ Latest.status = "cancelled"
    /\ serverFields = <<initialConfidenceInterval, initialAiValue, 0, 8, 0>>

(***************************************************************************)
(* Claims about getColorFromScale                                          *)
(***************************************************************************)
Clamp(i, lo, hi) == IF i < lo THEN lo ELSE IF i > hi THEN hi ELSE i

\* C7: for min < max the call returns colorScale[i], where
\* i = floor((value - min) / (max - min) * N) clamped into [0, N-1]; so the
\* result is always one of the N palette entries, also for value < min and
\* value > max.
C7_ClampedEntry ==
    (call.pc = "returned" /\ call.min < call.max) =>
        LET N == Len(call.colorScale)
            i == Clamp(((call.value - call.min) * N) \div (call.max - call.min), 0, N - 1)
        IN  /\ call.result = Some(call.colorScale[i + 1])
            /\ \E k \in 1 .. N : call.result = Some(call.colorScale[k])

\* C8: for fixed min < max and a fixed palette the palette index is
\* monotonically non-decreasing in value.
C8_Monotone ==
    (call.pc = "returned" /\ call.min < call.max) =>
        \A v1, v2 \in Values :
            v1 <= v2 => ScaleIndex(v1, call.min, call.max, call.colorScale)
                          <= ScaleIndex(v2, call.min, call.max, call.colorScale)

C8_Witness ==
    /\ call.pc = "returned" /\ call.min < call.max
    /\ Len(call.colorScale) >= 3
    /\ \E v \in Values :
          /\ v < call.value
          /\ ScaleIndex(v, call.min, call.max, call.colorScale)
               < ScaleIndex(call.value, call.min, call.max, call.colorScale)
    /\ call.value > call.max

\* C9: when min = max the call returns the entry at index floor(N / 2),
\* whatever the value.
C9_MiddleEntry ==
    (call.pc = "returned" /\ call.min = call.max) =>
        call.result = Some(call.colorScale[(Len(call.colorScale) \div 2) + 1])

C9_Witness ==
    /\ call.pc = "returned" /\ call.min = call.max
    /\ call.value # call.min
    /\ Len(call.colorScale) = 5
    /\ call.result = Some("#eab308")

(***************************************************************************)
(* Claims about the PricingHeatmap range                                   *)
(***************************************************************************)
\* The selected metric of one region, read off the record.
Selected(r) ==
    IF selectedMetric = "avg_price" THEN r.avg_price
    ELSE IF selectedMetric = "vendor_count" THEN r.vendor_count
    ELSE r.price_index

SelectedValues == { Selected(data[i]) : i \in 1 .. Len(data) }

\* C10: for a non-empty collection minValue is config.minValue when given
\* (0 included) and otherwise the least value of the selected metric, and
\* maxValue is config.maxValue or the greatest value; after a metric change
\* the range is the one of the newly selected metric.
C10_Range ==
    Len(data) > 0 =>
        /\ IF config.minValue # Undefined
           THEN range.minValue = config.minValue[1]
           ELSE /\ range.minValue \in SelectedValues
                /\ \A v \in SelectedValues : range.minValue <= v
        /\ IF config.maxValue # Undefined
           THEN range.maxValue = config.maxValue[1]
           ELSE /\ range.maxValue \in SelectedValues
                /\ \A v \in SelectedValues : v <= range.maxValue

C10_Witness ==
    /\ heatEvent = "metric"
    /\ selectedMetric = "price_index"
    /\ Len(data) = 2
    /\ config = [minValue |-> Some(0), maxValue |-> Undefined]
    /\ range = [minValue |-> 0, maxValue |-> 2]
    /\ data[1].price_index = 1 /\ data[2].price_index = 2

\* C11: with an empty region collection the colour range is the fallback
\* minValue = 0, maxValue = 100 (whatever the overrides), the summary shows
\* 0 total vendors, 0 total SKUs and an all-regions average price of $0.00,
\* and rendering is well defined.
C11_EmptyData ==
    Len(data) = 0 =>
        /\ range = [minValue |-> 0, maxValue |-> 100]
        /\ SummaryStats(data).totalVendors = 0
        /\ SummaryStats(data).totalSkus = 0
        /\ SummaryStats(data).avgPrice = <<"$0.00">>

C11_Witness ==
    /\ heatEvent = "data"
    /\ Len(data) = 0
    /\ config = [minValue |-> Some(2), maxValue |-> Some(200)]
    /\ range = [minValue |-> 0, maxValue |-> 100]
    /\ SummaryStats(data).regions = 0

(***************************************************************************)
(* Claims about VendorMatrix                                               *)
(***************************************************************************)
\* The positions of data.matrix holding a priced cell of SKU s.
PricedCells(d, s) ==
    { <<v, j>> \in (1 .. Len(d.matrix)) \X (1 .. Len(SkuPool)) :
        d.matrix[v][j].sku_id = s /\ d.matrix[v][j].has_pricing }

SkuIds == { SkuPool[j].sku_id : j \in 1 .. Len(SkuPool) }

\* C12: isSingleSource(s) is true exactly when one cell with sku_id = s,
\* over all vendors, has has_pricing = true (false with none); a step that
\* adds a second priced cell for s turns it from true to false.
C12_SingleSource ==
    [][\A s \in SkuIds :
          /\ isSingleSource(s)' <=> (Cardinality(PricedCells(matrixData', s)) = 1)
          /\ (Cardinality(PricedCells(matrixData', s)) = 0) => ~isSingleSource(s)'
          /\ ( /\ isSingleSource(s)
               /\ Cardinality(PricedCells(matrixData', s)) = 2
               /\ PricedCells(matrixData, s) \subseteq PricedCells(matrixData', s) )
             => ~isSingleSource(s)']_vars

C12_Witness ==
    /\ matrixEvent = "cell"
    /\ Cardinality(PricedCells(matrixData, "S1")) = 2
    /\ ~isSingleSource("S1")
    /\ Cardinality(PricedCells(matrixData, "S2")) = 1
    /\ isSingleSource("S2")

\* The positions of data.matrix holding a cell of vendor id.
VendorCells(d, id) ==
    { <<v, j>> \in (1 .. Len(d.matrix)) \X (1 .. Len(SkuPool)) :
        d.matrix[v][j].vendor_id = id }

\* C13: for every vendor v, coverage(v) is the number of v's cells with
\* has_pricing over the number of all SKUs, times 100, and bestPrice(v) is
\* the number of v's cells with price_rank 1; both are taken over the whole
\* matrix and the whole SKU list, whatever category is selected.
C13_VendorStats ==
    \A i \in 1 .. Len(matrixData.vendors) :
        LET id     == matrixData.vendors[i].vendor_id
            cells  == VendorCells(matrixData, id)
            priced == { p \in cells : matrixData.matrix[p[1]][p[2]].has_pricing }
            best   == { p \in cells : matrixData.matrix[p[1]][p[2]].price_rank = Some(1) }
        IN  /\ id \in DOMAIN vendorStats
            /\ vendorStats[id].coverage =
                  Percent(Cardinality(priced), Len(matrixData.skus))
            /\ vendorStats[id].bestPrice = Cardinality(best)

C13_Witness ==
    /\ matrixEvent = "cell"
    /\ filterCategory = "flooring"
    /\ Len(FilteredSKUs(matrixData.skus, filterCategory)) = 1
    /\ Len(matrixData.skus) = 2
    /\ vendorStats["V1"] = [coverage |-> <<"%", 5000>>, bestPrice |-> 0]
    /\ vendorStats["V2"] = [coverage |-> <<"%", 10000>>, bestPrice |-> 2]

\* The sort key of vendor v, larger meaning earlier: the name's place from
\* the end of the alphabet, the number of priced cells, or the number of
\* cells with price_rank 1.
SortKey(d, by, v) ==
    LET cells == VendorCells(d, v.vendor_id)
    IN  CASE by = "name" -> 0 - Collation[v.vendor_name]
          [] by = "coverage" ->
                Cardinality({ p \in cells : d.matrix[p[1]][p[2]].has_pricing })
          [] by = "price" ->
                Cardinality({ p \in cells : d.matrix[p[1]][p[2]].price_rank = Some(1) })

\* The position of vendor v in the sequence list.
IndexOf(list, v) == CHOOSE i \in 1 .. Len(list) : list[i] = v

\* sorted is list reordered by the key, ties in the order of list.
IsStableSort(d, by, list, sorted) ==
    /\ Len(sorted) = Len(list)
    /\ \A i \in 1 .. Len(list) : \E j \in 1 .. Len(sorted) : sorted[j] = list[i]
    /\ \A i, j \in 1 .. Len(sorted) :
          i < j =>
             \/ SortKey(d, by, sorted[i]) > SortKey(d, by, sorted[j])
             \/ /\ SortKey(d, by, sorted[i]) = SortKey(d, by, sorted[j])
                /\ IndexOf(list, sorted[i]) < IndexOf(list, sorted[j])

\* C14: sortedVendors is a permutation of data.vendors in ascending name
\* order, descending number of priced cells, or descending number of rank-1
\* cells, according to the sort key; vendors with equal keys keep their
\* order in data.vendors; choosing a sort key leaves data.vendors as it was.
C14_SortedVendors ==
    [][/\ IsStableSort(matrixData', sortBy', matrixData'.vendors, sortedVendors')
       /\ sortBy' # sortBy => matrixData'.vendors = matrixData.vendors]_vars

C14_Witness ==
    /\ matrixEvent = "sort"
    /\ sortBy = "price"
    /\ matrixData.vendors = <<VendorPool[1], VendorPool[2]>>
    /\ vendorStats["V1"].bestPrice = 0
    /\ vendorStats["V2"].bestPrice = 1
    /\ sortedVendors = <<VendorPool[2], VendorPool[1]>>

(***************************************************************************)
(* Claims about the mouse events                                           *)
(***************************************************************************)
\* The element a mouse event went to: the one entered, left or clicked.
EventTarget == IF pointer'.over # Undefined THEN pointer'.over[1] ELSE pointer.over[1]

\* The regions of data with the code of circle e.
RegionsOf(e) == { data[i] : i \in { k \in 1 .. Len(data) : data[k].region_code = e[2] } }

\* The cells of data.matrix for the vendor and the SKU of <td> e.
CellsOf(e) ==
    { matrixData.matrix[p[1]][p[2]] :
        p \in { q \in UNION { {v} \X (1 .. Len(matrixData.matrix[v])) :
                                v \in 1 .. Len(matrixData.matrix) } :
                  /\ matrixData.matrix[q[1]][q[2]].vendor_id = e[2]
                  /\ matrixData.matrix[q[1]][q[2]].sku_id = e[3] } }
PricedCellsOf(e) == { c \in CellsOf(e) : c.has_pricing }

\* What a heatmap step does to the tooltip.
HeatTooltipStep ==
    /\ (heatEvent' = "enter" /\ RegionsOf(EventTarget) # {}) =>
          /\ tooltip' # Undefined
          /\ tooltip'[1].region \in RegionsOf(EventTarget)
          /\ tooltip'[1].x = pointer'.x /\ tooltip'[1].y = pointer'.y
    /\ heatEvent' = "leave" => tooltip' = Undefined
    /\ tooltip' # tooltip =>
          \/ heatEvent' = "enter" /\ RegionsOf(EventTarget) # {}
          \/ heatEvent' = "leave"

\* What a matrix step does to the tooltip.
MatrixTooltipStep ==
    /\ (matrixEvent' = "enter" /\ EventTarget[1] = "td"
          /\ PricedCellsOf(EventTarget) # {}) =>
          /\ cellTooltip' # Undefined
          /\ cellTooltip'[1].cell \in PricedCellsOf(EventTarget)
          /\ cellTooltip'[1].vendor.vendor_id = EventTarget[2]
          /\ cellTooltip'[1].sku.sku_id = EventTarget[3]
          /\ cellTooltip'[1].x = pointer'.x /\ cellTooltip'[1].y = pointer'.y
    /\ (matrixEvent' = "leave" /\ EventTarget[1] = "td") => cellTooltip' = Undefined
    /\ cellTooltip' # cellTooltip =>
          \/ /\ matrixEvent' = "enter" /\ EventTarget[1] = "td"
             /\ PricedCellsOf(EventTarget) # {}
          \/ matrixEvent' = "leave" /\ EventTarget[1] = "td"

\* C15: the tooltip of either component starts idle (null); a pointer-enter
\* on an element with backing data makes it shown, bound to that entity and
\* to the pointer coordinates; a pointer-leave makes it idle; no other
\* event changes it.
C15_TooltipMachine ==
    /\ tooltip = Undefined /\ cellTooltip = Undefined
    /\ [][HeatTooltipStep /\ MatrixTooltipStep]_vars

C15_Witness ==
    /\ heatEvent = "enter"
    /\ pointer.over = Some(Circle("TX"))
    /\ Len(data) >= 2
    /\ data[2].region_code = "TX"
    /\ tooltip = Some([region |-> data[2], x |-> pointer.x, y |-> pointer.y])

\* The vendors of data.vendors and the SKUs of data.skus with the id of a label.
VendorsOf(e) == { matrixData.vendors[i] :
                    i \in { k \in 1 .. Len(matrixData.vendors) :
                              matrixData.vendors[k].vendor_id = e[2] } }
SkusOf(e)    == { matrixData.skus[j] :
                    j \in { k \in 1 .. Len(matrixData.skus) :
                              matrixData.skus[k].sku_id = e[2] } }

\* The callbacks of the last event are one call of fn with one of entities.
CalledOnce(fn, entities) ==
    /\ Len(callbacks') = 1
    /\ callbacks'[1].fn = fn
    /\ callbacks'[1].arg # Undefined
    /\ callbacks'[1].arg[1] \in entities

\* C16: a click on a heatmap region with data, on a priced matrix cell, on
\* a vendor name or on a SKU header invokes onRegionClick, onCellClick,
\* onVendorClick or onSKUClick exactly once with that entity, whether the
\* tooltip is shown or not, and leaves the tooltip as it was.
C16_ClickCallback ==
    [][/\ (heatEvent' = "click" /\ RegionsOf(EventTarget) # {}) =>
             /\ CalledOnce("onRegionClick", RegionsOf(EventTarget))
             /\ tooltip' = tooltip
       /\ matrixEvent' = "click" =>
             /\ (EventTarget[1] = "td" /\ PricedCellsOf(EventTarget) # {}) =>
                   CalledOnce("onCellClick", PricedCellsOf(EventTarget))
             /\ EventTarget[1] = "vendor-name" =>
                   CalledOnce("onVendorClick", VendorsOf(EventTarget))
             /\ EventTarget[1] = "sku-header" =>
                   CalledOnce("onSKUClick", SkusOf(EventTarget))
             /\ cellTooltip' = cellTooltip]_vars

C16_Witness ==
    /\ matrixEvent = "click"
    /\ pointer.over = Some(Td("V1", "S1"))
    /\ cellTooltip # Undefined
    /\ callbacks = <<Invoke("onCellClick", Some(Cell("V1", "S1", "best")))>>

\* C17: no pointer-enter, pointer-leave or click on a heatmap circle whose
\* region is absent from data, or on a matrix position whose cell has no
\* pricing, invokes a callback prop or changes the tooltip.
C17_NonInteractive ==
    [][/\ (heatEvent' \in {"enter", "leave", "click"} /\ RegionsOf(EventTarget) = {}) =>
             /\ callbacks' = <<>>
             /\ tooltip' = tooltip
       /\ ( /\ matrixEvent' \in {"enter", "leave", "click"}
            /\ EventTarget[1] = "td"
            /\ PricedCellsOf(EventTarget) = {} ) =>
             /\ callbacks' = <<>>
             /\ cellTooltip' = cellTooltip]_vars

(***************************************************************************)
(* Claims about SKUSearch                                                  *)
(***************************************************************************)
\* C18: an edit of the search input invokes onSearch in no way in the same
\* step; a debounced dispatch happens only 300ms after the last edit,
\* carries the query of that edit, and is the only one of its burst of
\* edits; a change of the category, a price bound or the active-only box
\* invokes onSearch once in the same step with the new filter record, which
\* is the old one with that field replaced.
C18_DebouncedQuery ==
    [][/\ searchEvent' = "query" =>
             /\ callbacks' = <<>>
             /\ filters'.query = lastQuery'
       /\ (searchEvent' = "query" /\ sinceQuery >= DebounceWait /\ queryBurst.edits > 0) =>
             queryBurst.dispatches = 1
       /\ searchEvent' = "fire" =>
             /\ sinceQuery >= DebounceWait
             /\ Len(callbacks') = 1
             /\ callbacks'[1].arg.query = lastQuery
             /\ queryBurst'.dispatches = 1
       /\ searchEvent' = "filter" =>
             /\ callbacks' = <<SearchCall(onSearch, filters')>>
             /\ \E key \in {"category", "min_price", "is_active"} :
                   \A k \in DOMAIN filters : k # key => filters'[k] = filters[k]]_vars

\* C19: neither the filter record nor a filter set passed to onSearch has
\* a field whose value is the empty string: a cleared field is absent.
C19_NoEmptyString ==
    \A key \in {"query", "category"} :
        /\ filters[key] # Some("")
        /\ \A i \in 1 .. Len(callbacks) : callbacks[i].arg[key] # Some("")

\* C20: a full reset makes the filter record the empty record and invokes
\* the current onSearch once, in the same step, with the empty filter set,
\* whatever the filters were.
C20_FullReset ==
    [][searchEvent' = "reset" =>
          /\ filters' = EmptyFilters
          /\ callbacks' = <<SearchCall(onSearch, EmptyFilters)>>]_vars

C20_Witness ==
    /\ searchEvent = "reset"
    /\ searchCount = 1
    /\ filters = EmptyFilters
    /\ callbacks = <<SearchCall(1, EmptyFilters)>>

\* C21: after a SKUSearch instance is unmounted no debounce timer of that
\* instance fires: no step taken by the unmounted component invokes onSearch.
\* (The PromoCalibrationSlider half of the statement is C6_UnmountCleansUp.)
C21_NoDispatchAfterUnmount ==
    [][ ~searchMounted => /\ searchEvent' # "fire"
                          /\ callbacks' = <<>>
      ]_vars

\* C22: the confidence interval is ordered in every state, initially and
\* after any applied response: confidenceInterval[0] <= confidenceInterval[1].
C22_OrderedInterval == confidenceInterval[1] <= confidenceInterval[2]

\* A fetch that has not been aborted is in flight.
InFlight == \E i \in 1 .. Len(requests) : requests[i].status = "pending"

\* C23: isLoading is true while a request that has not been aborted is in
\* flight (the settling of an aborted, superseded request does not clear it
\* under its successor), and it is true only while some fetch, live or
\* aborted, has not settled yet.
C23_LoadingWhileInFlight ==
    /\ InFlight => isLoading
    /\ isLoading => \E i \in 1 .. Len(requests) :
                        requests[i].status \in {"pending", "aborted"}

\* C24: after a drag, if the component stays mounted and no further drag
\* follows, a request carrying the current slider value is eventually
\* issued, also when the props change during the quiet period.
C24_DragLeadsToRequest ==
    \A n \in 1 .. MaxDrags :
        (mounted /\ dragCount = n)
            ~> \/ ~mounted
               \/ dragCount > n
               \/ /\ burst.requests >= 1
                  /\ Latest.promo_value = sliderValue

\* C25: once every timer has fired, the filter set most recently passed to
\* onSearch is the current filter record.  A field change or a reset passes
\* the record it stores, so the statement is about the debounced dispatch:
\* the one that leaves no timer pending carries the current record.
C25_LastDispatchCurrent ==
    [][ (searchMounted /\ searchEvent' = "fire" /\ timers' = NoTimers) =>
            callbacks'[Len(callbacks')].arg = filters'
      ]_vars

\* C26: unchecking 'Active SKUs only' stores and dispatches is_active =
\* false and re-checking it makes is_active absent again; a numeric bound
\* entered by the user, 0 included, is stored and dispatched as entered.
C26_ValuesStored ==
    [][ /\ ToggleActiveOnly =>
              /\ filters'.is_active = IF filters.is_active # Some(FALSE)
                                      THEN Some(FALSE) ELSE Undefined
              /\ callbacks' = <<SearchCall(onSearch, filters')>>
        /\ \A value \in PriceValues \ {Undefined} :
              EnterMinPrice(value) =>
                  /\ filters'.min_price = value
                  /\ callbacks' = <<SearchCall(onSearch, filters')>>
      ]_vars

\* C27: the slider value lies within the domain of the current promotion
\* type (0..50 for percentage, 0..500 for volume), so the slider position
\* ((value - min) / (max - min)) * 100 lies in [0, 100].
C27_ValueInDomain ==
    mounted =>
        LET cfg == getSliderConfig(promoType)
            pos == calculatePosition(sliderValue, cfg)
        IN  /\ cfg.min <= sliderValue /\ sliderValue <= cfg.max
            /\ 0 <= pos[1] /\ pos[1] <= 100 * pos[2]

\* loading = isLoading || externalLoading
loading == isLoading \/ externalLoading

\* C28: while loading is true no drag is accepted (the slider value does not
\* change, onValueChange is not invoked, the debounce timer is not armed),
\* and a request is never issued while an earlier one is still in flight.
C28_NoDragWhileLoading ==
    [][ /\ loading => /\ dragCount' = dragCount
                      /\ sliderValue' = sliderValue
                      /\ valueChange' = valueChange
                      /\ timerId' => timerId
        /\ Len(requests') > Len(requests) => ~InFlight
      ]_vars

\* C29: the colour-scale range of PricingHeatmap satisfies minValue <=
\* maxValue for every data collection, metric and combination of overrides,
\* and the selected metric of every region lies within [minValue, maxValue].
C29_RangeCoversData ==
    /\ range.minValue <= range.maxValue
    /\ \A v \in SelectedValues : range.minValue <= v /\ v <= range.maxValue

\* C30: a burst of query edits gives exactly one debounced dispatch, made on
\* the onSearch callback the parent currently passes and carrying the last
\* query, also when the parent passes a new onSearch during the burst.
C30_OneDispatchOnCurrent ==
    [][ searchEvent' = "fire" =>
            /\ queryBurst'.dispatches = 1
            /\ Len(callbacks') = 1
            /\ callbacks'[1].identity = onSearch
            /\ callbacks'[1].arg.query = lastQuery
      ]_vars

====
